---- MODULE Spec2Model ----
(***************************************************************************)
(* Model of the Engine API client of main.go: one EngineClient, shared by  *)
(* a bounded number of concurrent calls of ForkchoiceUpdated / NewPayload. *)
(* Each call runs makeRequest: build the JSON-RPC envelope, marshal it,    *)
(* mint a JWT from two readings of the wall clock, build the HTTP request  *)
(* bound to the caller's context, send it with client.Do, check the status *)
(* and decode the body.  The wall clock, the caller's context, the network *)
(* and the server are the environment.                                     *)
(***************************************************************************)
EXTENDS Integers, Sequences, FiniteSets, TLC

\* ---------------------------------------------------------------- bounds
\* The wall clock is counted in ticks; TicksPerSecond ticks make a second.
TicksPerSecond == 2
\* Last tick the clock reaches.
MaxTime == 3

\* ------------------------------------------------------ program constants
\* time.Minute, in seconds: the lifetime given to exp.
JWTValiditySeconds == 60
\* http.StatusOK
StatusOK == 200
\* http.Client{Timeout: 10 * time.Second}
ClientTimeoutSeconds == 10

\* The calls made on the one client, numbered in the order they are made.
\* They may overlap.  Every property below is about one call or about a
\* pair of calls, and no call reads another call's frame.
Calls == {1, 2}

\* ----------------------------------------------------------------- inputs
\* ForkChoiceState values (passed by value, always marshalable).
ForkChoiceStates == {"fcsA", "fcsB"}
\* attributes is a *PayloadAttributes: nil or a pointer to a struct.
NilAttributes == "nil"
PayloadAttributesSet == {"attrsA"}
\* payload is a map[string]interface{}: it may hold a value json.Marshal
\* rejects (a channel, a func, a NaN float).
Payloads == {"payloadA", "payloadNaN"}
NoInput == "-"

\* Endpoints the client may be constructed with: one url.Parse accepts and
\* one it rejects (NewEngineClient validates nothing).
Endpoints == {"http://localhost:8551", "http://bad host"}
\* Secrets: NewEngineClient accepts any byte slice, the empty one included.
Secrets == {"secret", ""}

\* The caller's context.
CtxLive == "live"
CtxErrors == {"context canceled", "context deadline exceeded"}

\* Failures of the connection that are not the caller's context: the send
\* fails, or the client's own Timeout fires.
TransportCauses == {"connection refused", "Client.Timeout exceeded"}

\* ------------------------------------------------------------------- JSON
\* json.Marshal of one Go value of the call shapes: a struct, a non-nil
\* pointer to a struct and a map become an object, a nil pointer null.
ToJSON(v) ==
    IF v = NilAttributes THEN [json |-> "null", of |-> ""]
                         ELSE [json |-> "object", of |-> v]

\* json.Marshal fails on a value it cannot represent.
Marshalable(v) == v # "payloadNaN"

RECURSIVE AllMarshalable(_)
AllMarshalable(params) ==
    IF params = <<>> THEN TRUE
    ELSE Marshalable(Head(params)) /\ AllMarshalable(Tail(params))

\* json.Marshal of a []interface{}: an array of the same length, in order.
MarshalParams(params) == [k \in 1..Len(params) |-> ToJSON(params[k])]

\* Response bodies are sequences of top-level items: a JSON object, the
\* JSON literal null, another JSON value (array, string, number), or bytes
\* that start no JSON value.
ObjValid == [payloadStatus |-> [status |-> "VALID"], payloadId |-> "null"]
ObjSyncing == [status |-> "SYNCING"]
NoObject == <<>>
ItemObject(o) == [kind |-> "object", val |-> o]
ItemNull == [kind |-> "null", val |-> NoObject]
ItemArray == [kind |-> "array", val |-> NoObject]
ItemJunk == [kind |-> "junk", val |-> NoObject]

Bodies ==
    { <<ItemObject(ObjValid)>>, <<ItemObject(ObjSyncing)>>,
      <<ItemObject(ObjValid), ItemJunk>>,
      <<ItemNull>>, <<ItemArray>>, <<ItemJunk>>, <<>> }

\* The body as a whole is JSON: exactly one JSON value.
IsJSON(body) == Len(body) = 1 /\ body[1].kind # "junk"
\* The body as a whole is a JSON object.
IsJSONObject(body) == Len(body) = 1 /\ body[1].kind = "object"

\* What the server may answer.
NoReply == [status |-> 0, body |-> <<>>]
Replies ==
    [status : {StatusOK}, body : Bodies]
    \cup { [status |-> 204, body |-> <<ItemObject(ObjValid)>>],
           [status |-> 401, body |-> <<ItemObject(ObjSyncing)>>],
           [status |-> 500, body |-> <<ItemJunk>>] }

\* ----------------------------------------------------------------- errors
\* An error value as the caller sees it: the text the return site puts in
\* front ("site"), the text of the wrapped error ("cause", formatted with
\* %v) and the status code printed by the status check.
NoErr == [site |-> "nil", cause |-> "", code |-> 0]
Err(site, cause, code) == [site |-> site, cause |-> cause, code |-> code]

\* A Go map result: nil, or the decoded object.
NilMap == [isNil |-> TRUE, val |-> NoObject]
MapOf(o) == [isNil |-> FALSE, val |-> o]

\* json.NewDecoder(body).Decode(&result), result a nil map[string]interface{}:
\* the decoder reads the first JSON value of the stream and stops there.
Decode(body) ==
    IF body = <<>> THEN [result |-> NilMap, err |-> "EOF"]
    ELSE LET first == Head(body) IN
         CASE first.kind = "object" -> [result |-> MapOf(first.val), err |-> ""]
           [] first.kind = "null"   -> [result |-> NilMap, err |-> ""]
           [] first.kind = "array"  ->
                [result |-> NilMap, err |-> "cannot unmarshal array"]
           [] OTHER                 ->
                [result |-> NilMap, err |-> "invalid character"]

\* ------------------------------------------------------------------ clock
\* time.Time.Unix(): whole seconds, the fraction dropped.
Unix(t) == t \div TicksPerSecond

VARIABLES
    now,      \* the wall clock, in ticks
    client,   \* the EngineClient: endpoint, jwtSecret, client (transport)
    calls,    \* calls[i]: the frame of call i
    wire      \* wire[i]: what the server wrote on call i's connection

vars == <<now, client, calls, wire>>

NoToken == [iat |-> -1, exp |-> -1, sig |-> <<>>]
NoEnvelope == [jsonrpc |-> "", method |-> "", params |-> <<>>, id |-> 0]

IdleCall ==
    [ pc |-> "idle",            \* idle, jwt_iat, jwt_exp, do, await, done
      op |-> NoInput,           \* "ForkchoiceUpdated" or "NewPayload"
      state |-> NoInput, attributes |-> NoInput, payload |-> NoInput,
      ctx |-> CtxLive,          \* the caller's context
      requestBody |-> NoEnvelope,
      iat |-> -1,               \* claims["iat"] once read
      startTick |-> -1,         \* the clock when the call was made
      genTick |-> -1,           \* the clock when iat was read
      doneTick |-> -1,          \* the clock when the call returned
      token |-> NoToken,
      sent |-> <<>>,            \* the requests client.Do put on the wire
      resp |-> NoReply,         \* what client.Do returned
      bodyRead |-> FALSE,       \* the response body was handed to the decoder
      result |-> NilMap, err |-> NoErr,
      failure |-> "none",       \* which failure path the call took
      canceledEarly |-> FALSE ] \* ctx was done before client.Do returned

NewEngineClient(endpoint, jwtSecret) ==
    [ endpoint |-> endpoint, jwtSecret |-> jwtSecret,
      client |-> [Timeout |-> ClientTimeoutSeconds] ]

Init ==
    /\ now = 0
    /\ \E e \in Endpoints, s \in Secrets : client = NewEngineClient(e, s)
    /\ calls = [i \in Calls |-> IdleCall]
    /\ wire = [i \in Calls |-> NoReply]

\* ---------------------------------------------------------------- helpers
Set(i, frame) == calls' = [calls EXCEPT ![i] = frame]

\* return nil, err
ReturnErr(c, failure, e) ==
    [c EXCEPT !.pc = "done", !.result = NilMap, !.err = e, !.failure = failure,
              !.doneTick = now]

\* url.Parse inside http.NewRequestWithContext
ValidURL(endpoint) == endpoint # "http://bad host"

\* Mutant: the version member is left out of the request map.
EnvelopeNoVersion(method, params) ==
    [jsonrpc |-> "", method |-> method, params |-> MarshalParams(params), id |-> 1]

\* The request map of makeRequest, marshalled.
Envelope(method, params) ==
    [jsonrpc |-> "2.0", method |-> method, params |-> MarshalParams(params), id |-> 1]

\* Mutant: attributes is appended whether or not it is nil.
FcuParamsNullSecond(state, attributes) == <<state, attributes>>

\* params of ForkchoiceUpdated
FcuParams(state, attributes) ==
    IF attributes # NilAttributes THEN <<state, attributes>> ELSE <<state>>

\* params of NewPayload
NewPayloadParams(payload) == <<payload>>

\* makeRequest up to the call of generateJWT: build the map, marshal it.
StartRequest(i, op, state, attributes, payload, method, params) ==
    /\ calls[i].pc = "idle"
    /\ \A j \in Calls : j < i => calls[j].pc # "idle"
    /\ LET c == [calls[i] EXCEPT !.op = op, !.state = state, !.startTick = now,
                                 !.attributes = attributes, !.payload = payload]
       IN IF AllMarshalable(params)
          THEN Set(i, [c EXCEPT !.pc = "jwt_iat",
                                !.requestBody = Envelope(method, params)])
          ELSE Set(i, ReturnErr(c, "serialization",
                       Err("failed to marshal request", "unsupported value", 0)))
    /\ UNCHANGED <<now, client, wire>>

ForkchoiceUpdated(i, state, attributes) ==
    StartRequest(i, "ForkchoiceUpdated", state, attributes, NoInput,
                 "engine_forkchoiceUpdatedV1", FcuParams(state, attributes))

NewPayload(i, payload) ==
    StartRequest(i, "NewPayload", NoInput, NoInput, payload,
                 "engine_newPayloadV1", NewPayloadParams(payload))

\* ------------------------------------------------------------ generateJWT
\* Mutant: a token another call minted is reused while there is one.
IssuedAtCached(i) ==
    LET minted == {j \in Calls : calls[j].token # NoToken}
    IN IF minted = {} THEN Unix(now)
       ELSE calls[CHOOSE j \in minted : \A k \in minted : j <= k].token.iat

\* claims["iat"]: time.Now().Unix(), the first reading of the clock.
IssuedAt(i) == Unix(now)

\* claims["exp"]: time.Now().Add(time.Minute).Unix(), a second reading.
ExpiresAt(i) == Unix(now + JWTValiditySeconds * TicksPerSecond)

\* token.SignedString(c.jwtSecret): HMAC-SHA256 is a function of the key and
\* the claims, so the signature is modelled as that pair.
SignedString(claims, key) ==
    [iat |-> claims.iat, exp |-> claims.exp, sig |-> <<key, claims.iat, claims.exp>>]

ReadIat(i) ==
    /\ calls[i].pc = "jwt_iat"
    /\ Set(i, [calls[i] EXCEPT !.pc = "jwt_exp", !.iat = IssuedAt(i), !.genTick = now])
    /\ UNCHANGED <<now, client, wire>>

\* The rest of generateJWT and makeRequest up to the call of client.Do: the
\* second clock reading, the signature, http.NewRequestWithContext.  signed
\* is whether SignedString returned no error: makeRequest has the branch,
\* whatever the key, so both outcomes are taken.
ReadExpAndSign(i, signed) ==
    /\ calls[i].pc = "jwt_exp"
    /\ LET c == calls[i]
           claims == [iat |-> c.iat, exp |-> ExpiresAt(i)]
       IN IF ~signed
          THEN Set(i, ReturnErr(c, "auth", Err("", "signing failed", 0)))
          ELSE LET t == [c EXCEPT !.token = SignedString(claims, client.jwtSecret)]
               IN IF ValidURL(client.endpoint)
                  THEN Set(i, [t EXCEPT !.pc = "do"])
                  ELSE Set(i, ReturnErr(t, "construct",
                               Err("failed to create request", "invalid URL", 0)))
    /\ UNCHANGED <<now, client, wire>>

\* ------------------------------------------------------------- client.Do
\* The HTTP request makeRequest builds.
HTTPRequest(c) ==
    [ verb |-> "POST", url |-> client.endpoint,
      contentType |-> "application/json",
      authorization |-> <<"Bearer", c.token>>,
      body |-> c.requestBody ]

\* Mutant: the error of client.Do is dropped from the message.
WrapDoErrNoCause(cause) == [site |-> "failed to make request", cause |-> "", code |-> 0]

\* fmt.Errorf("failed to make request: %v", err)
WrapDoErr(cause) == Err("failed to make request", cause, 0)

\* client.Do(req): a context already done fails the call before anything is
\* written; otherwise the request goes out and the call waits.  One call of
\* client.Do is one exchange with the endpoint: what the transport does
\* below it (connection reuse, redirects) is not part of the model.
Do(i) ==
    /\ calls[i].pc = "do"
    /\ LET c == calls[i]
       IN IF c.ctx # CtxLive
          THEN Set(i, ReturnErr(c, "canceled", WrapDoErr(c.ctx)))
          ELSE Set(i, [c EXCEPT !.pc = "await", !.sent = Append(@, HTTPRequest(c))])
    /\ UNCHANGED <<now, client, wire>>

\* The server answers the request on the connection it arrived on.
ServerRespond(i, r) ==
    /\ calls[i].pc = "await"
    /\ wire[i] = NoReply
    /\ wire' = [wire EXCEPT ![i] = r]
    /\ UNCHANGED <<now, client, calls>>

\* Mutant: a failed send is tried once more before the error is returned.
TransportFailRetry(i, cause) ==
    /\ calls[i].pc = "await"
    /\ calls[i].ctx = CtxLive
    /\ wire[i] = NoReply
    /\ IF Len(calls[i].sent) < 2
       THEN calls' = [calls EXCEPT ![i].pc = "do"]
       ELSE calls' = [calls EXCEPT ![i] = ReturnErr(calls[i], "transport",
                           [site |-> "failed to make request", cause |-> cause, code |-> 0])]
    /\ UNCHANGED <<now, client, wire>>

\* The send fails, or the client's own Timeout fires: client.Do returns an
\* error and makeRequest returns it wrapped.
TransportFail(i, cause) ==
    /\ calls[i].pc = "await"
    /\ calls[i].ctx = CtxLive
    /\ wire[i] = NoReply
    /\ Set(i, ReturnErr(calls[i], "transport", WrapDoErr(cause)))
    /\ UNCHANGED <<now, client, wire>>

\* The caller cancels the context, or its deadline passes.
CtxDone(i, how) ==
    /\ calls[i].pc # "done"
    /\ calls[i].ctx = CtxLive
    /\ Set(i, [calls[i] EXCEPT !.ctx = how, !.canceledEarly = TRUE])
    /\ UNCHANGED <<now, client, wire>>

\* client.Do returns the context's error while the request is in flight.
DoCanceled(i) ==
    /\ calls[i].pc = "await"
    /\ calls[i].ctx # CtxLive
    /\ Set(i, ReturnErr(calls[i], "canceled", WrapDoErr(calls[i].ctx)))
    /\ UNCHANGED <<now, client, wire>>

\* Mutant: responses are matched to calls by the JSON-RPC id.
ReplyForById(i) ==
    LET same == {j \in Calls : /\ calls[j].pc = "await"
                               /\ wire[j] # NoReply
                               /\ calls[j].requestBody.id = calls[i].requestBody.id}
    IN IF same = {} THEN NoReply
       ELSE wire[CHOOSE j \in same : \A k \in same : j >= k]

\* The response client.Do hands to call i: the one on its own connection.
ReplyFor(i) == wire[i]

\* Mutant: the request is built without the caller's context.
CtxIgnored(i) == TRUE

\* The request carries ctx (NewRequestWithContext): once ctx is done the
\* transport gives up the exchange instead of delivering a response.
CtxAllowsResponse(i) == calls[i].ctx = CtxLive

\* Mutant: only the 4xx and 5xx statuses are failures.
StatusBelow400(code) == code < 400

\* resp.StatusCode != http.StatusOK is the failure test.
StatusIsOK(code) == code = StatusOK

\* client.Do returns a response: status check, then decode.
DoReturns(i) ==
    /\ calls[i].pc = "await"
    /\ ReplyFor(i) # NoReply
    /\ CtxAllowsResponse(i)
    /\ LET c == [calls[i] EXCEPT !.resp = ReplyFor(i)]
           d == Decode(c.resp.body)
       IN IF ~StatusIsOK(c.resp.status)
          THEN Set(i, ReturnErr(c, "status",
                       Err("unexpected HTTP status", "", c.resp.status)))
          ELSE IF d.err # ""
          THEN Set(i, ReturnErr([c EXCEPT !.bodyRead = TRUE], "decode",
                       Err("failed to decode response", d.err, 0)))
          ELSE Set(i, [c EXCEPT !.pc = "done", !.bodyRead = TRUE, !.doneTick = now,
                                !.result = d.result, !.err = NoErr])
    /\ UNCHANGED <<now, client, wire>>

\* The headers of a 200 response arrived, and the context is done before
\* the body is read through: the decoder's read fails with ctx's error.
BodyReadCanceled(i, how) ==
    /\ calls[i].pc = "await"
    /\ ReplyFor(i) # NoReply
    /\ calls[i].ctx = CtxLive
    /\ StatusIsOK(ReplyFor(i).status)
    /\ Set(i, ReturnErr([calls[i] EXCEPT !.resp = ReplyFor(i), !.ctx = how,
                                         !.bodyRead = TRUE],
                 "canceled", Err("failed to decode response", how, 0)))
    /\ UNCHANGED <<now, client, wire>>

\* The wall clock advances.
Tick ==
    /\ now < MaxTime
    /\ now' = now + 1
    /\ UNCHANGED <<client, calls, wire>>

Next ==
    \/ \E i \in Calls, s \in ForkChoiceStates,
          a \in PayloadAttributesSet \cup {NilAttributes} : ForkchoiceUpdated(i, s, a)
    \/ \E i \in Calls, p \in Payloads : NewPayload(i, p)
    \/ \E i \in Calls : ReadIat(i)
    \/ \E i \in Calls, signed \in BOOLEAN : ReadExpAndSign(i, signed)
    \/ \E i \in Calls : Do(i)
    \/ \E i \in Calls, r \in Replies : ServerRespond(i, r)
    \/ \E i \in Calls, cause \in TransportCauses : TransportFail(i, cause)
    \/ \E i \in Calls, how \in CtxErrors : CtxDone(i, how)
    \/ \E i \in Calls : DoCanceled(i)
    \/ \E i \in Calls : DoReturns(i)
    \/ \E i \in Calls, how \in CtxErrors : BodyReadCanceled(i, how)

\* The exchange at one instant of the clock: every input, every answer of
\* the server, every failure of the transport, the caller's context.
Spec == Init /\ [][Next]_vars

\* The clock advancing under the calls: token generation, the send and one
\* canned answer, for one input of each operation.
CannedReply == [status |-> StatusOK, body |-> <<ItemObject(ObjSyncing)>>]

NextClock ==
    \/ \E i \in Calls : ForkchoiceUpdated(i, "fcsA", NilAttributes)
    \/ \E i \in Calls : NewPayload(i, "payloadA")
    \/ \E i \in Calls : ReadIat(i)
    \/ \E i \in Calls : ReadExpAndSign(i, TRUE)
    \/ \E i \in Calls : Do(i)
    \/ \E i \in Calls : ServerRespond(i, CannedReply)
    \/ \E i \in Calls : DoReturns(i)
    \/ Tick

SpecClock == Init /\ [][NextClock]_vars

\* ================================================================ claims
Failed(c) == c.pc = "done" /\ c.failure # "none"
\* The failures that happen before client.Do is called.
BeforeSend == {"serialization", "auth", "construct"}

C2_ExpIsIatPlus60 ==
    \A i \in Calls :
        calls[i].token # NoToken =>
            /\ calls[i].token.iat = Unix(calls[i].genTick)
            /\ calls[i].token.exp = calls[i].token.iat + JWTValiditySeconds

\* The token a call sent (calls that sent nothing have none).
SentToken(c) == c.sent[1].authorization[2]

\* C3, as stated: two calls separated by any nonzero interval (the second is
\* made after the first returned, the clock having advanced) send tokens
\* with different iat.
C3_AnyIntervalDiffers ==
    \A i, j \in Calls :
        ( /\ calls[i].sent # <<>> /\ calls[j].sent # <<>>
          /\ calls[i].pc = "done"
          /\ calls[i].doneTick < calls[j].startTick )
        => SentToken(calls[i]).iat # SentToken(calls[j]).iat

\* C3, amended: the token a call sends is minted inside that call: its iat is
\* the Unix second of a clock reading taken after the call was made, and
\* two calls whose readings fall in different seconds send tokens with
\* different iat and signature.
C3_FreshPerCall ==
    \A i \in Calls :
        calls[i].sent # <<>> =>
            /\ calls[i].startTick <= calls[i].genTick
            /\ SentToken(calls[i]).iat = Unix(calls[i].genTick)
            /\ \A j \in Calls :
                 ( calls[j].sent # <<>>
                   /\ Unix(calls[i].genTick) # Unix(calls[j].genTick) )
                 => /\ SentToken(calls[i]).iat # SentToken(calls[j]).iat
                    /\ SentToken(calls[i]).sig # SentToken(calls[j]).sig

\* Two calls, the second made after the first returned, whose clock
\* readings fall in different seconds.
C3_Witness ==
    \E i, j \in Calls :
        /\ calls[i].sent # <<>> /\ calls[j].sent # <<>>
        /\ calls[i].pc = "done"
        /\ calls[i].doneTick < calls[j].startTick
        /\ Unix(calls[i].genTick) # Unix(calls[j].genTick)

\* C4: the params ForkchoiceUpdated sends are the state alone when
\* attributes is nil, and the state followed by the attributes otherwise.
C4_ParamsArity ==
    \A i \in Calls :
        LET c == calls[i] IN
        (c.op = "ForkchoiceUpdated" /\ c.sent # <<>>) =>
            LET params == c.sent[1].body.params IN
            /\ params[1] = [json |-> "object", of |-> c.state]
            /\ IF c.attributes = NilAttributes
               THEN Len(params) = 1
               ELSE /\ Len(params) = 2
                    /\ params[2] = [json |-> "object", of |-> c.attributes]

\* One request went out without attributes and one with.
C4_Witness ==
    \E i, j \in Calls :
        /\ calls[i].op = "ForkchoiceUpdated" /\ calls[i].sent # <<>>
        /\ calls[i].attributes = NilAttributes
        /\ calls[j].op = "ForkchoiceUpdated" /\ calls[j].sent # <<>>
        /\ calls[j].attributes \in PayloadAttributesSet

\* C5: every request sent has jsonrpc "2.0" and id 1; ForkchoiceUpdated
\* sends method engine_forkchoiceUpdatedV1, NewPayload sends method
\* engine_newPayloadV1 with the payload as its only param.
C5_Envelope ==
    \A i \in Calls :
        LET c == calls[i] IN
        \A k \in 1..Len(c.sent) :
            LET body == c.sent[k].body IN
            /\ body.jsonrpc = "2.0"
            /\ body.id = 1
            /\ c.op = "ForkchoiceUpdated" => body.method = "engine_forkchoiceUpdatedV1"
            /\ c.op = "NewPayload" =>
                 /\ body.method = "engine_newPayloadV1"
                 /\ body.params = <<[json |-> "object", of |-> c.payload]>>

\* Both operations have sent a request.
C5_Witness ==
    \E i, j \in Calls :
        /\ calls[i].op = "ForkchoiceUpdated" /\ calls[i].sent # <<>>
        /\ calls[j].op = "NewPayload" /\ calls[j].sent # <<>>

C7_ResultIffJSONObject ==
    \A i \in Calls :
        LET c == calls[i] IN
        (c.pc = "done" /\ c.resp.status = StatusOK /\ c.failure # "canceled") =>
            /\ ~c.result.isNil <=> IsJSONObject(c.resp.body)
            /\ ~c.result.isNil => c.result.val = c.resp.body[1].val
            /\ ~IsJSON(c.resp.body) => (c.failure = "decode" /\ c.result.isNil)

\* C8, as stated: a call whose context was done before client.Do returned a
\* response fails with the context's error, returns no result and sends at
\* most once.
C8_CancelIsCtxError ==
    \A i \in Calls :
        LET c == calls[i] IN
        (c.pc = "done" /\ c.canceledEarly) =>
            /\ c.err.cause \in CtxErrors
            /\ c.result = NilMap
            /\ Len(c.sent) <= 1

\* C8, amended: such a call fails, returns no result, sends at most once and
\* leaves the client as it was; its error is the context's error unless
\* serialization, signing or request construction failed first.
C8_CancelFails ==
    /\ [](\A i \in Calls :
            LET c == calls[i] IN
            (c.pc = "done" /\ c.canceledEarly) =>
                /\ c.err # NoErr
                /\ c.result = NilMap
                /\ Len(c.sent) <= 1
                /\ c.failure \notin BeforeSend =>
                     (c.failure = "canceled" /\ c.err.cause = c.ctx))
    /\ [][client' = client]_vars

\* A call canceled while its request was in flight, and a call whose
\* context was done before it was made.
C8_Witness ==
    \E i, j \in Calls :
        /\ calls[i].pc = "done" /\ calls[i].canceledEarly
        /\ calls[i].failure = "canceled" /\ Len(calls[i].sent) = 1
        /\ calls[j].pc = "done" /\ calls[j].canceledEarly
        /\ calls[j].failure = "canceled" /\ calls[j].sent = <<>>

\* The kinds of failure the error contract names: a failed send and a
\* non-200 status are one kind.
ErrorKind(failure) == IF failure = "status" THEN "transport" ELSE failure

C10_Immutable ==
    /\ [][client' = client]_vars
    /\ [](\A i \in Calls :
            LET c == calls[i] IN
            /\ \A k \in 1..Len(c.sent) :
                 /\ c.sent[k].body.id = 1
                 /\ c.sent[k].url = client.endpoint
                 /\ c.sent[k].body.params[1].of =
                      (IF c.op = "NewPayload" THEN c.payload ELSE c.state)
                 /\ c.sent[k].authorization[2].sig[1] = client.jwtSecret
            /\ c.resp # NoReply => c.resp = wire[i]
            /\ ~c.result.isNil => c.result.val = wire[i].body[1].val)

\* Call 2 was answered and returned while call 1, made before it, was still
\* in flight with a different answer on its connection.
C10_Witness ==
    /\ calls[1].pc = "await" /\ wire[1] # NoReply
    /\ calls[2].pc = "done" /\ ~calls[2].result.isNil
    /\ wire[1] # wire[2]

====
